---- MODULE Spec2Model ----
(***************************************************************************)
(* A model of package pprint: rows typeset against column schemas that are *)
(* shared by reference, arranged in a tree of nodes.                       *)
(*                                                                         *)
(* The heap is three pools (schemas, rows, nodes); an object's identity is *)
(* its index in its pool, and Nil (0) is the nil pointer.  Text is a       *)
(* sequence of one-character strings, so that len, concatenation and       *)
(* number formatting are computed rather than assumed.                     *)
(*                                                                         *)
(* Two revisions of the tree code are in the repository.  pprint.go has    *)
(* the strict PushNode (an incoming node without a row is rejected); the   *)
(* later revision gives a row-less incoming node an empty row.  The strict *)
(* revision is specification Spec, the later one SpecLazy.                 *)
(*                                                                         *)
(* The other specifications build trees for one purpose each: SpecPush,    *)
(* SpecSort and SpecRender by Push from one root (to be sorted, rendered), *)
(* SpecTree with every operation, SpecWalk to step through a call of Walk, *)
(* SpecRace to interleave two calls of Push on one schema.                 *)
(***************************************************************************)
EXTENDS Integers, Sequences, FiniteSets, TLC

VARIABLES
    schemas,    \* pool of ColumnSchema objects
    rows,       \* pool of Row objects
    nodes,      \* pool of Node objects
    made,       \* history: the column options each schema was created from
    walk,       \* the call of Walk in progress: its frames and the nodes visited
    threads     \* the calls of Push in progress on concurrent threads

vars == <<schemas, rows, nodes, made, walk, threads>>

\* ------------------------------------------------------------- bounds
\* Rows plus nodes a behaviour allocates.
MaxObjects == 5
\* Values in one argument list.
MaxFields == 2
\* Push calls in a tree built by Push alone.
MaxPushes == 3
\* Push calls in a tree that is sorted.
MaxSortPushes == 4
\* Push calls in a tree that is rendered.
MaxRenderPushes == 3
\* Push calls, and parent-to-child links, in a structure that is walked.
MaxWalkPushes == 2
MaxWalkLinks == 4

Nil == 0
NoErr == ""

\* ------------------------------------------------------------- values
\* An interface{} value: its dynamic type and payload.
IntV(i) == [type |-> "int", i |-> i, s |-> <<>>]
StrV(s) == [type |-> "string", i |-> 0, s |-> s]
NilV == [type |-> "nil", i |-> 0, s |-> <<>>]

Max(a, b) == IF a > b THEN a ELSE b
Min(a, b) == IF a < b THEN a ELSE b

DigitChar == <<"0", "1", "2", "3", "4", "5", "6", "7", "8", "9">>

RECURSIVE FormatUint(_)
FormatUint(n) ==
    IF n < 10 THEN <<DigitChar[n + 1]>>
    ELSE FormatUint(n \div 10) \o <<DigitChar[(n % 10) + 1]>>

\* strconv.FormatInt(i, 10)
FormatInt(i) == IF i < 0 THEN <<"-">> \o FormatUint(-i) ELSE FormatUint(i)

MustToString(a) ==
    CASE a.type = "string" -> a.s
      [] a.type = "int" -> FormatInt(a.i)
      [] a.type = "nil" -> <<>>

\* resizeSlice without the truncating case.
resizeSlice_noTruncate(s, become) ==
    IF Len(s) < become THEN s \o [i \in 1..(become - Len(s)) |-> NilV] ELSE s

resizeSlice(s, become) ==
    IF Len(s) = become THEN s
    ELSE IF Len(s) < become THEN s \o [i \in 1..(become - Len(s)) |-> NilV]
    ELSE SubSeq(s, 1, become)

\* ------------------------------------------------------------ columns
Column0 == [width |-> 0, fixed |-> FALSE, right |-> FALSE]

WithWidth(c, w) == [c EXCEPT !.width = IF w < 0 THEN 0 ELSE w, !.fixed = TRUE]

WithLeftAlignment(c) == [c EXCEPT !.right = TRUE]

\* A column option list is [hasWidth, w, left]: WithWidth(w) when hasWidth,
\* WithLeftAlignment() when left.
NewColumn(o) ==
    LET c1 == IF o.hasWidth THEN WithWidth(Column0, o.w) ELSE Column0
    IN IF o.left THEN WithLeftAlignment(c1) ELSE c1

\* A column padded on the right unless asked otherwise.
ColumnString_leftDefault(c) ==
    IF c.right THEN <<"%">> \o FormatInt(c.width) \o <<"s">>
    ELSE <<"%", "-">> \o FormatInt(c.width) \o <<"s">>

ColumnString(c) ==
    IF c.right THEN <<"%", "-">> \o FormatInt(c.width) \o <<"s">>
    ELSE <<"%">> \o FormatInt(c.width) \o <<"s">>

NewSchema(cs) == [cols |-> cs, count |-> Len(cs)]

NewSchemaFrom(fields) ==
    [cols |-> [i \in 1..Len(fields) |-> Column0], count |-> Len(fields)]

\* ---------------------------------------------------------------- rows
\* prepare's loop body storing the latest length, not the largest.
prepareColumn_latest(c, w) ==
    IF ~c.fixed THEN [c EXCEPT !.width = w] ELSE c

\* prepare's loop body never storing a width.
prepareColumn_never(c, w) == c

\* prepare's loop body without the test of pad.fixed.
prepareColumn_ignoreFixed(c, w) ==
    IF w > c.width THEN [c EXCEPT !.width = w] ELSE c

\* The body of prepare's loop for one column: c is the schema's column,
\* w the length of the row's string in it.
prepareColumn(c, w) ==
    IF ~c.fixed /\ w > c.width THEN [c EXCEPT !.width = w] ELSE c

\* Row.prepare on a row whose options left schema reference s (Nil when no
\* schema option was given) and data f.  Yields the heap with the row
\* added, and the row's index.
prepare(h, s, f) ==
    LET S1 == IF s = Nil THEN Append(h.schemas, NewSchemaFrom(f)) ELSE h.schemas
        sid == IF s = Nil THEN Len(S1) ELSE s
        fields == IF s = Nil THEN f ELSE resizeSlice(f, S1[sid].count)
        fmtArgs == [i \in 1..S1[sid].count |-> MustToString(fields[i])]
        cols == [i \in 1..S1[sid].count |->
                    prepareColumn(S1[sid].cols[i], Len(fmtArgs[i]))]
        S2 == [S1 EXCEPT ![sid].cols = cols]
        r == [schema |-> sid, fields |-> fields, fmtArgs |-> fmtArgs]
    IN [h |-> [h EXCEPT !.schemas = S2, !.rows = Append(h.rows, r)],
        out |-> Len(h.rows) + 1]

\* A row's schema option: none, WithSchema(s) or WithColumns(c...).
NoSchemaOpt == [kind |-> "none", s |-> Nil, cols |-> <<>>]
WithSchema(s) == [kind |-> "schema", s |-> s, cols |-> <<>>]
WithColumns(cs) == [kind |-> "columns", s |-> Nil, cols |-> cs]

NewRow(h, opt, a) ==
    IF opt.kind = "columns"
    THEN LET S1 == Append(h.schemas, NewSchema([i \in 1..Len(opt.cols) |-> NewColumn(opt.cols[i])]))
         IN prepare([h EXCEPT !.schemas = S1], Len(S1), a)
    ELSE prepare(h, opt.s, a)

EachFmtStr(h, r) ==
    [i \in 1..Len(h.schemas[h.rows[r].schema].cols) |->
        ColumnString(h.schemas[h.rows[r].schema].cols[i])]

FmtArgs(h, r) == h.rows[r].fmtArgs


\* --------------------------------------------------------------- nodes
Failed(h, e) == [h |-> h, out |-> Nil, err |-> e]

\* NewNode leaving the node's schema unset.
NewNode_noInherit(h, r) ==
    LET n == [nodes |-> <<>>, parent |-> Nil, schema |-> Nil, row |-> r]
    IN [h |-> [h EXCEPT !.nodes = Append(h.nodes, n)], out |-> Len(h.nodes) + 1]

\* NewNode(WithRow(r)), or NewNode() when r is Nil.
NewNode(h, r) ==
    LET n == [nodes |-> <<>>, parent |-> Nil,
              schema |-> IF r # Nil THEN h.rows[r].schema ELSE Nil,
              row |-> r]
    IN [h |-> [h EXCEPT !.nodes = Append(h.nodes, n)], out |-> Len(h.nodes) + 1]

\* Schemas compared by their columns, not by identity.
SameSchema_structural(h, a, b) == h.schemas[a] = h.schemas[b]

\* The comparison of two schema pointers.
SameSchema(h, a, b) == a = b

\* The incoming node put first among the children.
Attach_front(h, n, incoming) ==
    LET N1 == [h.nodes EXCEPT ![incoming].parent = n]
    IN [h EXCEPT !.nodes = [N1 EXCEPT ![n].nodes = <<incoming>> \o @]]

\* incoming.parent = n; n.nodes = append(n.nodes, incoming)
Attach(h, n, incoming) ==
    LET N1 == [h.nodes EXCEPT ![incoming].parent = n]
    IN [h EXCEPT !.nodes = [N1 EXCEPT ![n].nodes = Append(@, incoming)]]

\* PushNode attaching a node with a row whatever the row's schema is.
mergeRow_noCheck(h, n, incoming) ==
    LET irs == h.rows[h.nodes[incoming].row].schema
        h1 == IF h.nodes[n].schema = Nil THEN [h EXCEPT !.nodes[n].schema = irs] ELSE h
    IN [h |-> Attach(h1, n, incoming), out |-> incoming, err |-> NoErr]

\* PushNode setting the incoming node's parent before it compares schemas.
mergeRow_parentFirst(h, n, incoming) ==
    LET irs == h.rows[h.nodes[incoming].row].schema
        ns == h.nodes[n].schema
    IN IF ns # Nil /\ ~SameSchema(h, ns, irs)
       THEN Failed([h EXCEPT !.nodes[incoming].parent = n],
                   "PushNode: incoming node must have the same schema")
       ELSE mergeRow_noCheck(h, n, incoming)

\* PushNode from the point where the incoming node is known to have a row.
mergeRow(h, n, incoming) ==
    LET irs == h.rows[h.nodes[incoming].row].schema
        ns == h.nodes[n].schema
    IN IF irs = Nil
       THEN IF ns = Nil
            THEN Failed(h, "PushNode: both nodes have no schemas")
            ELSE [h |-> Attach([h EXCEPT !.nodes[incoming].schema = ns], n, incoming),
                  out |-> incoming, err |-> NoErr]
       ELSE IF ns = Nil
       THEN [h |-> Attach([h EXCEPT !.nodes[n].schema = irs], n, incoming),
             out |-> incoming, err |-> NoErr]
       ELSE IF ~SameSchema(h, ns, irs)
       THEN Failed(h, "PushNode: incoming node must have the same schema")
       ELSE [h |-> Attach(h, n, incoming), out |-> incoming, err |-> NoErr]

\* PushNode attaching a row-less node when the receiver has a schema.
PushNode_acceptEmpty(h, n, incoming) ==
    IF incoming = Nil THEN Failed(h, "PushNode: incoming can't be nil")
    ELSE IF h.nodes[incoming].row = Nil
    THEN IF h.nodes[n].schema = Nil
         THEN Failed(h, "PushNode: can't add empty node")
         ELSE [h |-> Attach(h, n, incoming), out |-> incoming, err |-> NoErr]
    ELSE mergeRow(h, n, incoming)

\* PushNode refusing to push a node onto itself.
PushNode_rejectSelf(h, n, incoming) ==
    IF incoming = Nil THEN Failed(h, "PushNode: incoming can't be nil")
    ELSE IF h.nodes[incoming].row = Nil
    THEN Failed(h, "PushNode: can't add empty node")
    ELSE IF incoming = n THEN Failed(h, "PushNode: loop")
    ELSE mergeRow(h, n, incoming)

PushNode(h, n, incoming) ==
    IF incoming = Nil THEN Failed(h, "PushNode: incoming can't be nil")
    ELSE IF h.nodes[incoming].row = Nil
    THEN Failed(h, "PushNode: can't add empty node")
    ELSE mergeRow(h, n, incoming)

PushRow(h, n, r) ==
    LET nn == NewNode(h, r) IN PushNode(nn.h, n, nn.out)

\* Push making the row without the receiver's schema.
Push_ownSchema(h, n, a) ==
    LET nr == NewRow(h, NoSchemaOpt, a)
    IN PushRow(nr.h, n, nr.out)

Push(h, n, a) ==
    LET nr == NewRow(h, WithSchema(h.nodes[n].schema), a)
    IN PushRow(nr.h, n, nr.out)

\* ---------------------------------------------------------------- sort
\* A nil CmpFn.
NoCmp == "nil"

ErrNoField == "Sort: no such field"
ErrTypes == "createSortableOn: column %d doesn't contain identical value type"
ErrNoCmp == "createSortableOn: don't know how to sort %s"

\* The bytes of the text the model uses, in byte order.
Alphabet == <<"-", "0", "1", "2", "3", "4", "5", "6", "7", "8", "9",
              "a", "b", "c", "x">>

Ord(c) == CHOOSE k \in 1..Len(Alphabet) : Alphabet[k] = c

\* a < b on strings: bytewise, a proper prefix is smaller.
RECURSIVE StrLess(_, _)
StrLess(a, b) ==
    IF b = <<>> THEN FALSE
    ELSE IF a = <<>> THEN TRUE
    ELSE IF Head(a) # Head(b) THEN Ord(Head(a)) < Ord(Head(b))
    ELSE StrLess(Tail(a), Tail(b))

\* The built-in matcher; time.Time values are not among the model's values.
MatchCmp(a) ==
    CASE a.type = "string" -> "ltString"
      [] a.type = "int" -> "ltInt"
      [] OTHER -> NoCmp

\* A matcher, by name: the built-in one, and three a caller may pass to
\* WithCmpMatchers: one that orders ints downwards, one that knows how to
\* compare nils (none is smaller), one that returns nil for everything.
Matcher(m, a) ==
    CASE m = "MatchCmp" -> MatchCmp(a)
      [] m = "intDown" -> IF a.type = "int" THEN "gtInt" ELSE NoCmp
      [] m = "nils" -> IF a.type = "nil" THEN "never" ELSE NoCmp
      [] OTHER -> NoCmp

\* The call cmp(a, b) of comparator c.
Cmp(c, a, b) ==
    CASE c = "ltInt" -> a.i < b.i
      [] c = "gtInt" -> a.i > b.i
      [] c = "ltString" -> StrLess(a.s, b.s)
      [] OTHER -> FALSE

\* The chain with the built-in matcher put first.
fullChain_builtinFirst(chain) == <<"MatchCmp">> \o chain

\* s.chain = append(s.chain, MatchCmp), after the options have run.
fullChain(chain) == Append(chain, "MatchCmp")

\* sortable.matchComparator from the k-th matcher on: the comparator found
\* and the number of matchers called.
RECURSIVE matchComparator(_, _, _)
matchComparator(chain, a, k) ==
    IF k > Len(chain) THEN [cmp |-> NoCmp, calls |-> Len(chain)]
    ELSE IF Matcher(chain[k], a) # NoCmp
    THEN [cmp |-> Matcher(chain[k], a), calls |-> k]
    ELSE matchComparator(chain, a, k + 1)

\* nodes.cell(col, row) over the node sequence ns; row counts from 1 here.
cell(h, ns, col, row) == h.rows[h.nodes[ns[row]].row].fields[col + 1]

\* holdsIdenticalType looking at the first two values only.
holdsIdenticalType_firstPair(h, ns, col) ==
    cell(h, ns, col, 1).type = cell(h, ns, col, 2).type

holdsIdenticalType(h, ns, col) ==
    \A j \in 2..Len(ns) : cell(h, ns, col, j - 1).type = cell(h, ns, col, j).type

\* A less that is also true of equal values in ascending order.
toLess_orEqual(desc, c, a, b) ==
    IF desc THEN ~Cmp(c, a, b) ELSE ~Cmp(c, b, a)

\* A descending less that swaps the comparator's arguments.
toLess_swapped(desc, c, a, b) ==
    IF desc THEN Cmp(c, b, a) ELSE Cmp(c, a, b)

\* The lessFn toLess makes, applied to two cells.
toLess(desc, c, a, b) ==
    IF desc THEN ~Cmp(c, a, b) ELSE Cmp(c, a, b)

\* A Swap that loses the element at j.
Swap_overwrite(ns, i, j) == [ns EXCEPT ![j] = ns[i]]

Swap(ns, i, j) == [ns EXCEPT ![i] = ns[j], ![j] = ns[i]]

\* sort.Stable on fewer than 20 elements is one insertion sort:
\*   for i := 1; i < n; i++ { for j := i; j > 0 && Less(j, j-1); j-- { Swap(j, j-1) } }
RECURSIVE insertDown(_, _, _, _, _, _)
insertDown(h, ns, col, desc, c, j) ==
    IF j > 1 /\ toLess(desc, c, cell(h, ns, col, j), cell(h, ns, col, j - 1))
    THEN insertDown(h, Swap(ns, j, j - 1), col, desc, c, j - 1)
    ELSE ns

RECURSIVE insertionSort(_, _, _, _, _, _)
insertionSort(h, ns, col, desc, c, i) ==
    IF i > Len(ns) THEN ns
    ELSE insertionSort(h, insertDown(h, ns, col, desc, c, i), col, desc, c, i + 1)

Stable(h, ns, col, desc, c) == insertionSort(h, ns, col, desc, c, 2)

\* The sort options folded: WithDescending() sets desc, WithCmpMatchers(m...)
\* appends to chain.
SortOpts(desc, chain) == [desc |-> desc, chain |-> chain]

\* What Sort yields: the heap, the error, and what the caller's matchers
\* saw (how many were called, which comparator was taken).
Sorted(h, e, calls, c) == [h |-> h, err |-> e, calls |-> calls, cmp |-> c]

\* createSortableOn and sort.Stable, for a node with children.
createSortableOn(h, n, col, opts) ==
    LET ns == h.nodes[n].nodes
        m == matchComparator(fullChain(opts.chain), cell(h, ns, col, 1), 1)
    IN IF ~holdsIdenticalType(h, ns, col) THEN Sorted(h, ErrTypes, 0, NoCmp)
       ELSE IF m.cmp = NoCmp THEN Sorted(h, ErrNoCmp, m.calls, NoCmp)
       ELSE Sorted([h EXCEPT !.nodes[n].nodes = Stable(h, ns, col, opts.desc, m.cmp)],
                   NoErr, m.calls, m.cmp)

\* Sort counting the children before it looks at the column.
Sort_countFirst(h, n, col, opts) ==
    IF Len(h.nodes[n].nodes) < 2 THEN Sorted(h, NoErr, 0, NoCmp)
    ELSE IF \/ h.nodes[n].schema = Nil
            \/ col < 0
            \/ col >= h.schemas[h.nodes[n].schema].count
    THEN Sorted(h, ErrNoField, 0, NoCmp)
    ELSE createSortableOn(h, n, col, opts)

\* Sort without the return for fewer than two children.
Sort_noShortcut(h, n, col, opts) ==
    IF \/ h.nodes[n].schema = Nil
       \/ col < 0
       \/ col >= h.schemas[h.nodes[n].schema].count
    THEN Sorted(h, ErrNoField, 0, NoCmp)
    ELSE IF Len(h.nodes[n].nodes) = 0 THEN Sorted(h, NoErr, 0, NoCmp)
    ELSE createSortableOn(h, n, col, opts)

Sort(h, n, col, opts) ==
    IF \/ h.nodes[n].schema = Nil
       \/ col < 0
       \/ col >= h.schemas[h.nodes[n].schema].count
    THEN Sorted(h, ErrNoField, 0, NoCmp)
    ELSE IF Len(h.nodes[n].nodes) < 2 THEN Sorted(h, NoErr, 0, NoCmp)
    ELSE createSortableOn(h, n, col, opts)

\* ------------------------------------------------------------ printing
\* A Printing: the line terminator and the separator; what is written to
\* the writer is what RunRow and RunNode yield.
NewPrinting(sep, lf) == [sep |-> sep, lf |-> lf]

Spaces(k) == [i \in 1..k |-> " "]

\* fmt's padding of string v to width wid: on the right with the minus
\* flag, else on the left, with zeros under the zero flag.
padString(v, wid, minus, zero) ==
    IF Len(v) >= wid THEN v
    ELSE IF minus THEN v \o Spaces(wid - Len(v))
    ELSE IF zero THEN [i \in 1..(wid - Len(v)) |-> "0"] \o v
    ELSE Spaces(wid - Len(v)) \o v

FlagChars == {"#", "0", "+", "-", " "}

\* The index of the first character at or after i that is not a flag.
RECURSIVE skipFlags(_, _)
skipFlags(f, i) ==
    IF i <= Len(f) /\ f[i] \in FlagChars THEN skipFlags(f, i + 1) ELSE i

IsDigit(c) == \E k \in 1..10 : DigitChar[k] = c

DigitValue(c) == (CHOOSE k \in 1..10 : DigitChar[k] = c) - 1

\* The decimal number starting at i: its value and the index after it.
RECURSIVE parsenum(_, _, _)
parsenum(f, i, acc) ==
    IF i <= Len(f) /\ IsDigit(f[i])
    THEN parsenum(f, i + 1, acc * 10 + DigitValue(f[i]))
    ELSE [num |-> acc, next |-> i]

\* "string=a, string=b" for the operands from k on.
RECURSIVE extraOperands(_, _)
extraOperands(args, k) ==
    IF k > Len(args) THEN <<>>
    ELSE <<"s", "t", "r", "i", "n", "g", "=">> \o args[k]
            \o (IF k < Len(args) THEN <<",", " ">> ELSE <<>>)
            \o extraOperands(args, k + 1)

\* fmt.Sprintf(f, args...) for string operands, from index i of the format
\* and operand k on: literal text, the verbs %s and %% with flags and
\* width, and fmt's notes for a missing verb, a missing operand, another
\* verb and operands left over.
RECURSIVE doPrintf(_, _, _, _)
doPrintf(f, i, args, k) ==
    IF i > Len(f)
    THEN IF k <= Len(args)
         THEN <<"%", "!", "(", "E", "X", "T", "R", "A", " ">>
                  \o extraOperands(args, k) \o <<")">>
         ELSE <<>>
    ELSE IF f[i] # "%" THEN <<f[i]>> \o doPrintf(f, i + 1, args, k)
    ELSE LET j == skipFlags(f, i + 1)
             minus == \E x \in (i + 1)..(j - 1) : f[x] = "-"
             zero == (\E x \in (i + 1)..(j - 1) : f[x] = "0") /\ ~minus
             w == parsenum(f, j, 0)
             v == w.next
         IN IF v > Len(f) THEN <<"%", "!", "(", "N", "O", "V", "E", "R", "B", ")">>
            ELSE IF f[v] = "%" THEN <<"%">> \o doPrintf(f, v + 1, args, k)
            ELSE IF k > Len(args)
            THEN <<"%", "!", f[v], "(", "M", "I", "S", "S", "I", "N", "G", ")">>
                     \o doPrintf(f, v + 1, args, k)
            ELSE IF f[v] = "s"
            THEN padString(args[k], w.num, minus, zero) \o doPrintf(f, v + 1, args, k + 1)
            ELSE <<"%", "!", f[v], "(", "s", "t", "r", "i", "n", "g", "=">>
                     \o args[k] \o <<")">>
                     \o doPrintf(f, v + 1, args, k + 1)

Sprintf(f, args) == doPrintf(f, 1, args, 1)

\* The format string RunRow builds: separator and descriptor per column.
RECURSIVE joinFmtStr(_, _, _)
joinFmtStr(sep, fs, i) ==
    IF i > Len(fs) THEN <<>> ELSE sep \o fs[i] \o joinFmtStr(sep, fs, i + 1)

\* Printing.RunRow(r): the text written, nothing for a nil row.
RunRow(h, p, r) ==
    IF r = Nil THEN <<>>
    ELSE LET str0 == joinFmtStr(p.sep, EachFmtStr(h, r), 1)
             str1 == IF p.sep # <<>>
                     THEN SubSeq(str0, Len(p.sep) + 1, Len(str0))
                     ELSE str0
             str2 == IF p.lf # <<>> THEN str1 \o p.lf ELSE str1
         IN IF str0 = <<>> THEN <<>> ELSE Sprintf(str2, FmtArgs(h, r))

\* The nodes Walk calls fn with, in the order of the calls, walking the
\* child sequence cs.  (On a cycle Walk does not return.)
RECURSIVE walkList(_, _)

\* A walk that visits a child's subtree after the child's later siblings.
walkList_siblingsFirst(h, cs) ==
    IF cs = <<>> THEN <<>>
    ELSE <<Head(cs)>> \o walkList(h, Tail(cs)) \o walkList(h, h.nodes[Head(cs)].nodes)

walkList(h, cs) ==
    IF cs = <<>> THEN <<>>
    ELSE <<Head(cs)>> \o walkList(h, h.nodes[Head(cs)].nodes) \o walkList(h, Tail(cs))

Walk(h, n) == walkList(h, h.nodes[n].nodes)

\* The text of RunRow on the rows of the nodes ns, one after the other.
RECURSIVE runRows(_, _, _, _)
runRows(h, p, ns, i) ==
    IF i > Len(ns) THEN <<>>
    ELSE RunRow(h, p, h.nodes[ns[i]].row) \o runRows(h, p, ns, i + 1)

\* RunNode writing the rows below the node only.
RunNode_childrenOnly(h, p, n) ==
    IF n = Nil THEN <<>> ELSE runRows(h, p, Walk(h, n), 1)

\* Printing.RunNode(n): the text written.
RunNode(h, p, n) ==
    IF n = Nil THEN <<>>
    ELSE (IF h.nodes[n].parent # Nil THEN RunRow(h, p, h.nodes[n].row) ELSE <<>>)
             \o runRows(h, p, Walk(h, n), 1)

\* ------------------------------------------- nodes, the later revision
\* NewNode(opts...): a schema option (none, WithSchema, WithColumns) and
\* WithRow(r), r Nil when absent.  The node does not take its row's schema.
NewNodeLazy(h, opt, r) ==
    LET S1 == IF opt.kind = "columns"
              THEN Append(h.schemas, NewSchema([i \in 1..Len(opt.cols) |-> NewColumn(opt.cols[i])]))
              ELSE h.schemas
        n == [nodes |-> <<>>, parent |-> Nil,
              schema |-> IF opt.kind = "columns" THEN Len(S1) ELSE opt.s,
              row |-> r]
    IN [h |-> [h EXCEPT !.schemas = S1, !.nodes = Append(h.nodes, n)],
        out |-> Len(h.nodes) + 1]

\* The receiver keeping its schema unset.
adoptSchema_skip(h, n, s) == h

\* n.schema = s
adoptSchema(h, n, s) == [h EXCEPT !.nodes[n].schema = s]

\* The empty row made without the receiver's schema.
giveEmptyRow_ownSchema(h, n, in) ==
    LET nr == NewRow(h, NoSchemaOpt, <<>>)
    IN [nr.h EXCEPT !.nodes[in].row = nr.out]

\* in.row = NewRow(WithRowSchema(n.schema))
giveEmptyRow(h, n, in) ==
    LET nr == NewRow(h, WithSchema(h.nodes[n].schema), <<>>)
    IN [nr.h EXCEPT !.nodes[in].row = nr.out]

PushNodeLazy(h, n, in) ==
    IF in = Nil THEN Failed(h, "PushNode: nil incoming")
    ELSE IF h.nodes[n].schema = Nil
    THEN IF h.nodes[in].row = Nil
         THEN IF h.nodes[in].schema = Nil
              THEN Failed(h, "PushNode: no schema to set")
              ELSE [h |-> Attach(giveEmptyRow(adoptSchema(h, n, h.nodes[in].schema), n, in), n, in),
                    out |-> in, err |-> NoErr]
         ELSE [h |-> Attach(adoptSchema(h, n, h.rows[h.nodes[in].row].schema), n, in),
               out |-> in, err |-> NoErr]
    ELSE IF h.nodes[in].row = Nil
         THEN [h |-> Attach(giveEmptyRow(h, n, in), n, in), out |-> in, err |-> NoErr]
         ELSE IF h.rows[h.nodes[in].row].schema # h.nodes[n].schema
         THEN Failed(h, "PushNode: row of the incoming node doesn't match my node schema")
         ELSE [h |-> Attach(h, n, in), out |-> in, err |-> NoErr]

PushRowLazy(h, n, r) ==
    LET nn == NewNodeLazy(h, NoSchemaOpt, r) IN PushNodeLazy(nn.h, n, nn.out)

PushLazy(h, n, a) ==
    LET opt == IF h.nodes[n].schema = Nil
               THEN IF h.nodes[n].parent = Nil
                    THEN NoSchemaOpt
                    ELSE WithSchema(h.nodes[h.nodes[n].parent].schema)
               ELSE WithSchema(h.nodes[n].schema)
        nr == NewRow(h, opt, a)
    IN PushRowLazy(nr.h, n, nr.out)

\* -------------------------------------------------------------- inputs
\* Two rows of values; every argument list is a prefix of one of them.
RowA == <<IntV(5), StrV(<<"a", "b">>), NilV, IntV(-12)>>
RowB == <<StrV(<<"a", "b", "c">>), IntV(-12), IntV(5), NilV>>

\* The argument lists of a call: at most MaxFields values.
Data ==
    { SubSeq(RowA, 1, k) : k \in 0..(MaxFields - 1) }
        \cup { SubSeq(RowB, 1, MaxFields) }

Auto == [hasWidth |-> FALSE, w |-> 0, left |-> FALSE]
AutoLeft == [hasWidth |-> FALSE, w |-> 0, left |-> TRUE]
Width(w) == [hasWidth |-> TRUE, w |-> w, left |-> FALSE]
WidthLeft(w) == [hasWidth |-> TRUE, w |-> w, left |-> TRUE]

\* The column lists given to WithColumns.
ColumnLists == { <<Width(2), AutoLeft, WidthLeft(-1)>> }

\* ------------------------------------------------------------- actions
Heap == [schemas |-> schemas, rows |-> rows, nodes |-> nodes]

RECURSIVE SumLen(_, _)
SumLen(ns, k) == IF k = 0 THEN 0 ELSE Len(ns[k].nodes) + SumLen(ns, k - 1)

\* The number of parent-to-child links in the heap.
Links(h) == SumLen(h.nodes, Len(h.nodes))

InBounds(h) ==
    /\ Len(h.rows) + Len(h.nodes) <= MaxObjects
    /\ Links(h) < Len(h.nodes)

\* The options of the columns NewSchemaFrom makes for the values a.
Derived(a) == [i \in 1..Len(a) |-> Auto]

\* The next state is heap h; opts are the column options of the schema the
\* call created, if it created one.
Store(h, opts) ==
    /\ schemas' = h.schemas
    /\ rows' = h.rows
    /\ nodes' = h.nodes
    /\ made' = IF Len(h.schemas) > Len(schemas) THEN Append(made, opts) ELSE made
    /\ UNCHANGED <<walk, threads>>

\* What a call leaves behind.  The node a failed PushRow or Push made is
\* referenced by nothing (the caller gets nil back), so it is not kept.
Kept(res) ==
    IF res.err = NoErr THEN res.h
    ELSE [res.h EXCEPT !.nodes = SubSeq(@, 1, Len(nodes))]

\* No call of Walk in progress, no thread started.
NoWalk == [on |-> FALSE, root |-> Nil, stack |-> <<>>, seen |-> <<>>]
NoThreads == <<>>

Init ==
    /\ schemas = <<>>
    /\ rows = <<>>
    /\ nodes = <<>>
    /\ made = <<>>
    /\ walk = NoWalk
    /\ threads = NoThreads

SchemaOpts ==
    {NoSchemaOpt} \cup {WithSchema(s) : s \in DOMAIN schemas}
        \cup {WithColumns(cs) : cs \in ColumnLists}

CallNewRow ==
    \E opt \in SchemaOpts, a \in Data :
        LET res == NewRow(Heap, opt, a) IN
        /\ InBounds(res.h)
        /\ Store(res.h, IF opt.kind = "columns" THEN opt.cols ELSE Derived(a))

CallNewNode ==
    \E r \in DOMAIN rows \cup {Nil} :
        LET res == NewNode(Heap, r) IN
        /\ InBounds(res.h)
        /\ Store(res.h, <<>>)

CallPush ==
    \E n \in DOMAIN nodes, a \in Data :
        LET res == Push(Heap, n, a) IN
        /\ InBounds(res.h)
        /\ Store(Kept(res), Derived(a))

CallPushRow ==
    \E n \in DOMAIN nodes, r \in DOMAIN rows \cup {Nil} :
        LET res == PushRow(Heap, n, r) IN
        /\ InBounds(res.h)
        /\ Store(Kept(res), <<>>)

CallPushNode ==
    \E n \in DOMAIN nodes, incoming \in DOMAIN nodes \cup {Nil} :
        LET res == PushNode(Heap, n, incoming) IN
        /\ InBounds(res.h)
        /\ Store(Kept(res), <<>>)

Next ==
    \/ CallNewRow
    \/ CallNewNode
    \/ CallPush
    \/ CallPushRow
    \/ CallPushNode

Spec == Init /\ [][Next]_vars

\* The later revision's interface.
CallNewNodeLazy ==
    \E opt \in SchemaOpts, r \in DOMAIN rows \cup {Nil} :
        LET res == NewNodeLazy(Heap, opt, r) IN
        /\ InBounds(res.h)
        /\ Store(res.h, opt.cols)

CallPushLazy ==
    \E n \in DOMAIN nodes, a \in Data :
        LET res == PushLazy(Heap, n, a) IN
        /\ InBounds(res.h)
        /\ Store(Kept(res), Derived(a))

CallPushRowLazy ==
    \E n \in DOMAIN nodes, r \in DOMAIN rows \cup {Nil} :
        LET res == PushRowLazy(Heap, n, r) IN
        /\ InBounds(res.h)
        /\ Store(Kept(res), <<>>)

CallPushNodeLazy ==
    \E n \in DOMAIN nodes, in \in DOMAIN nodes \cup {Nil} :
        LET res == PushNodeLazy(Heap, n, in) IN
        /\ InBounds(res.h)
        /\ Store(Kept(res), <<>>)

\* Rows are typeset by the same code in both revisions; here they come into
\* being through Push and PushNode.
NextLazy ==
    \/ CallNewNodeLazy
    \/ CallPushLazy
    \/ CallPushRowLazy
    \/ CallPushNodeLazy

SpecLazy == Init /\ [][NextLazy]_vars

\* A tree built by Push alone, from one root made by NewNode().
InitPush ==
    /\ schemas = <<>>
    /\ rows = <<>>
    /\ nodes = NewNode([schemas |-> <<>>, rows |-> <<>>, nodes |-> <<>>], Nil).h.nodes
    /\ made = <<>>
    /\ walk = NoWalk
    /\ threads = NoThreads

CallPushOnly ==
    \E n \in DOMAIN nodes, a \in Data :
        LET res == Push(Heap, n, a) IN
        /\ Len(res.h.nodes) <= MaxPushes + 1
        /\ Store(Kept(res), Derived(a))

SpecPush == InitPush /\ [][CallPushOnly]_vars

\* The columns Sort is asked for: one below and one above every valid index.
SortColumns == (0 - 1)..MaxFields

\* The matcher lists given to WithCmpMatchers.
Chains ==
    { <<>>, <<"intDown">>, <<"none", "intDown">>, <<"nils">>,
      <<"MatchCmp", "intDown">> }

SortOptions == { SortOpts(d, ch) : d \in BOOLEAN, ch \in Chains }

CallSort ==
    \E n \in DOMAIN nodes, col \in SortColumns, opts \in SortOptions :
        Store(Sort(Heap, n, col, opts).h, <<>>)

\* The strict revision's whole tree interface.
NextTree ==
    \/ Next
    \/ CallSort

SpecTree == Init /\ [][NextTree]_vars

\* Rows to sort: two columns with equal and different keys, and a short row
\* with another type whose second field is padded.
KeyRows ==
    { <<IntV(5), StrV(<<"b">>)>>, <<IntV(3), StrV(<<"a">>)>>,
      <<IntV(5), StrV(<<"a">>)>>, <<StrV(<<"x">>)>> }

CallPushKeyed ==
    \E n \in DOMAIN nodes, a \in KeyRows :
        LET res == Push(Heap, n, a) IN
        /\ Len(res.h.nodes) <= MaxSortPushes + 1
        /\ Store(Kept(res), Derived(a))

NextSort ==
    \/ CallPushKeyed
    \/ CallSort

\* A tree built by Push from one root, its nodes sorted at any time.
SpecSort == InitPush /\ [][NextSort]_vars

\* The row pushed into a structure that is walked.
WalkRows == { <<StrV(<<"a">>)>> }

\* The structure is built before Walk is called: fn does not push.
CallPushWalked ==
    \E n \in DOMAIN nodes, a \in WalkRows :
        LET res == Push(Heap, n, a) IN
        /\ ~walk.on
        /\ Len(res.h.nodes) <= MaxWalkPushes + 1
        /\ Store(Kept(res), Derived(a))

\* PushNode of a node there is onto any node: itself, a descendant, a
\* second parent.
CallPushNodeAgain ==
    \E n \in DOMAIN nodes, incoming \in DOMAIN nodes :
        LET res == PushNode(Heap, n, incoming) IN
        /\ ~walk.on
        /\ Links(res.h) <= MaxWalkLinks
        /\ Store(Kept(res), <<>>)

\* n.Walk(fn) is called: one frame, at the first child of n.
StartWalk ==
    \E n \in DOMAIN nodes :
        /\ ~walk.on
        /\ walk' = [on |-> TRUE, root |-> n, stack |-> <<[node |-> n, i |-> 1]>>,
                    seen |-> <<>>]
        /\ UNCHANGED <<schemas, rows, nodes, made, threads>>

\* Walk has returned: no frame is left.
Returned == walk.on /\ walk.stack = <<>>

\* More frames than nodes: some node is being walked inside its own walk,
\* and as nothing changes the structure the inner walk repeats the outer
\* one without end.
Diverged == walk.on /\ Len(walk.stack) > Len(nodes)

\* One iteration of the loop of EachNode in the innermost frame: fn(c) and
\* the call c.Walk(fn) for the next child c, or the return when the
\* children are exhausted.
WalkStep ==
    /\ walk.on
    /\ walk.stack # <<>>
    /\ ~Diverged
    /\ LET d == Len(walk.stack)
           f == walk.stack[d]
       IN IF f.i <= Len(nodes[f.node].nodes)
          THEN LET c == nodes[f.node].nodes[f.i] IN
               walk' = [walk EXCEPT !.seen = Append(@, c),
                                    !.stack = Append([@ EXCEPT ![d].i = f.i + 1],
                                                     [node |-> c, i |-> 1])]
          ELSE walk' = [walk EXCEPT !.stack = SubSeq(@, 1, d - 1)]
    /\ UNCHANGED <<schemas, rows, nodes, made, threads>>

NextWalk ==
    \/ CallPushWalked
    \/ CallPushNodeAgain
    \/ StartWalk
    \/ WalkStep

\* A structure built by Push and PushNode and then walked; a call of Walk
\* in progress goes on.
SpecWalk == InitPush /\ [][NextWalk]_vars /\ WF_vars(WalkStep)

\* The row pushed before the threads start, and the rows they push.
RaceFirstRow == <<StrV(<<"a">>), StrV(<<"b">>)>>
RaceRows ==
    { <<StrV(<<"b", "b">>)>>, <<StrV(<<"c", "c", "c">>), StrV(<<"d", "d">>)>> }

\* A thread that has not called Push yet; it will call it on node n.
IdleThread(n) ==
    [pc |-> "idle", node |-> n, row |-> Nil, i |-> 0, c |-> Column0, w |-> 0]

\* A root and the child made by one Push; the two nodes share the schema
\* the push made.  Thread t is about to push on node t.
InitRace ==
    LET h0 == NewNode([schemas |-> <<>>, rows |-> <<>>, nodes |-> <<>>], Nil).h
        h1 == Push(h0, 1, RaceFirstRow).h
    IN /\ schemas = h1.schemas
       /\ rows = h1.rows
       /\ nodes = h1.nodes
       /\ made = <<Derived(RaceFirstRow)>>
       /\ walk = NoWalk
       /\ threads = <<IdleThread(1), IdleThread(2)>>

\* The position after column i of a row of schema s: the next column, or
\* the end of prepare.
NextColumn(s, i) == IF i + 1 > schemas[s].count THEN "attach" ELSE "read"

\* A write that does not reach the schema.
writeWidth_keep(S, s, i, w) == S

\* r.schema.cols[i].width = w
writeWidth(S, s, i, w) == [S EXCEPT ![s].cols[i].width = w]

\* Push up to the loop of prepare: the row is made with the node's schema,
\* its fields resized and converted.  All of it is private to the thread.
ThreadNewRow ==
    \E t \in DOMAIN threads, a \in RaceRows :
        LET s == nodes[threads[t].node].schema
            fields == resizeSlice(a, schemas[s].count)
            r == [schema |-> s, fields |-> fields,
                  fmtArgs |-> [i \in 1..schemas[s].count |-> MustToString(fields[i])]]
        IN /\ threads[t].pc = "idle"
           /\ rows' = Append(rows, r)
           /\ threads' = [threads EXCEPT ![t].row = Len(rows) + 1, ![t].i = 1,
                                         ![t].pc = NextColumn(s, 0)]
           /\ UNCHANGED <<schemas, nodes, made, walk>>

\* c := r.schema.cols[i]: the column is copied, its width read.
ThreadRead ==
    \E t \in DOMAIN threads :
        /\ threads[t].pc = "read"
        /\ threads' = [threads EXCEPT
                          ![t].c = schemas[rows[threads[t].row].schema].cols[threads[t].i],
                          ![t].w = Len(rows[threads[t].row].fmtArgs[threads[t].i]),
                          ![t].pc = "cmp"]
        /\ UNCHANGED <<schemas, rows, nodes, made, walk>>

\* !c.pad.fixed and w > c.width, on the copy.
ThreadCompare ==
    \E t \in DOMAIN threads :
        LET th == threads[t] IN
        /\ th.pc = "cmp"
        /\ threads' = IF ~th.c.fixed /\ th.w > th.c.width
                      THEN [threads EXCEPT ![t].pc = "write"]
                      ELSE [threads EXCEPT ![t].pc = NextColumn(rows[th.row].schema, th.i),
                                           ![t].i = th.i + 1]
        /\ UNCHANGED <<schemas, rows, nodes, made, walk>>

\* The width is written to the shared schema.
ThreadWrite ==
    \E t \in DOMAIN threads :
        LET th == threads[t] IN
        /\ th.pc = "write"
        /\ schemas' = writeWidth(schemas, rows[th.row].schema, th.i, th.w)
        /\ threads' = [threads EXCEPT ![t].pc = NextColumn(rows[th.row].schema, th.i),
                                      ![t].i = th.i + 1]
        /\ UNCHANGED <<rows, nodes, made, walk>>

\* PushRow: the node is made for the row and pushed onto the thread's node.
ThreadAttach ==
    \E t \in DOMAIN threads :
        LET res == PushRow(Heap, threads[t].node, threads[t].row) IN
        /\ threads[t].pc = "attach"
        /\ nodes' = Kept(res).nodes
        /\ threads' = [threads EXCEPT ![t].pc = "done"]
        /\ UNCHANGED <<schemas, rows, made, walk>>

NextRace ==
    \/ ThreadNewRow
    \/ ThreadRead
    \/ ThreadCompare
    \/ ThreadWrite
    \/ ThreadAttach

\* Two threads, each calling Push once, on two nodes that share a schema.
SpecRace == InitRace /\ [][NextRace]_vars

\* Rows to render: numbers and words of one and two characters, and a
\* short row.
RenderRows ==
    { <<IntV(1), StrV(<<"a", "b">>)>>, <<IntV(22), StrV(<<"c">>)>>,
      <<StrV(<<"c">>)>> }

CallPushRendered ==
    \E n \in DOMAIN nodes, a \in RenderRows :
        LET res == Push(Heap, n, a) IN
        /\ Len(res.h.nodes) <= MaxRenderPushes + 1
        /\ Store(Kept(res), Derived(a))

\* A tree built by Push from one root, to be rendered.
SpecRender == InitPush /\ [][CallPushRendered]_vars

\* The separators and line terminators given to the printing options.
Seps == { <<>>, <<" ">>, <<"|">>, <<"%">> }
Lfs == { <<"\n">>, <<>> }
Printings == { NewPrinting(sep, lf) : sep \in Seps, lf \in Lfs }

\* ---------------------------------------------------------- properties
\* The widest element of a finite set of naturals.
SetMax(S) == CHOOSE x \in S : \A y \in S : y <= x

\* The i-th value of argument list a, nil where a has none.
Arg(a, i) == IF i <= Len(a) THEN a[i] ELSE NilV

\* The printf verb of a column padded to W, left-aligned when left.
Descriptor(left, W) ==
    <<"%">> \o (IF left THEN <<"-">> ELSE <<>>) \o FormatInt(W) \o <<"s">>

\* The rows of the heap that hold schema s.
RowsOf(s) == { r \in DOMAIN rows : rows[r].schema = s }

\* The length of the longest string any row of schema s has in column i.
Longest(s, i) == SetMax({ Len(rows[r].fmtArgs[i]) : r \in RowsOf(s) } \cup {0})

\* C1: in every reachable heap, the width of every non-fixed column of every
\* schema is the length of the longest string that any row constructed with
\* that schema holds in that column, 0 when no row holds the schema; a field
\* a short row was padded with counts as length 0.
C1_AutoWidth ==
    \A s \in DOMAIN schemas : \A i \in 1..schemas[s].count :
        ~schemas[s].cols[i].fixed => schemas[s].cols[i].width = Longest(s, i)

\* A schema shared by an earlier long row and a later shorter one, the later
\* row attached to a tree; the column still has the earlier row's length.
C1_Witness ==
    \E r1 \in DOMAIN rows, r2 \in DOMAIN rows, n \in DOMAIN nodes :
        /\ r1 < r2
        /\ rows[r1].schema = rows[r2].schema
        /\ nodes[n].row = r2 /\ nodes[n].parent # Nil
        /\ schemas[rows[r1].schema].count >= 1
        /\ ~schemas[rows[r1].schema].cols[1].fixed
        /\ Len(rows[r1].fmtArgs[1]) > Len(rows[r2].fmtArgs[1])
        /\ Len(rows[r2].fmtArgs[1]) > 0
        /\ schemas[rows[r1].schema].cols[1].width = Len(rows[r1].fmtArgs[1])

\* What a row construction with values a, whose result is heap h2, leaves
\* of the rows that were there before it.
EarlierRows(h2, a) ==
    LET S == h2.rows[Len(h2.rows)].schema IN
    \A r \in DOMAIN rows :
        /\ h2.rows[r] = rows[r]
        /\ FmtArgs(h2, r) = FmtArgs(Heap, r)
        /\ IF rows[r].schema = S
           THEN \A i \in 1..schemas[S].count :
                    LET c == schemas[S].cols[i]
                        W == IF c.fixed THEN c.width
                             ELSE Max(c.width, Len(MustToString(Arg(a, i))))
                    IN EachFmtStr(h2, r)[i] = Descriptor(c.right, W)
           ELSE EachFmtStr(h2, r) = EachFmtStr(Heap, r)

\* C2: a row construction (NewRow with any schema option, Push on any node)
\* leaves the fields and value strings of every earlier row unchanged; the
\* descriptors of the earlier rows holding the new row's schema show that
\* schema's raised widths, those of other rows are unchanged.
C2_EarlierRowsKept ==
    /\ \A opt \in SchemaOpts, a \in Data : EarlierRows(NewRow(Heap, opt, a).h, a)
    /\ \A n \in DOMAIN nodes, a \in Data : EarlierRows(Push(Heap, n, a).h, a)

\* An earlier row whose descriptor is wider than its own string, because a
\* later row of the same schema was longer.
C2_Witness ==
    \E r1 \in DOMAIN rows, r2 \in DOMAIN rows :
        /\ r1 < r2
        /\ rows[r1].schema = rows[r2].schema
        /\ rows[r1].fmtArgs = <<<<"5">>>>
        /\ rows[r2].fmtArgs = <<<<"a", "b", "c">>>>
        /\ EachFmtStr(Heap, r1) = <<<<"%", "3", "s">>>>

\* C3: a column made with WithWidth(w) has width max(w, 0) in every
\* reachable heap, whatever rows were constructed against its schema, and
\* its descriptor is "%Ws", or "%-Ws" when left-aligned, W = max(w, 0).
C3_FixedWidth ==
    \A s \in DOMAIN schemas : \A i \in 1..Len(made[s]) :
        made[s][i].hasWidth =>
            LET W == IF made[s][i].w < 0 THEN 0 ELSE made[s][i].w IN
            /\ schemas[s].cols[i].width = W
            /\ ColumnString(schemas[s].cols[i]) = Descriptor(made[s][i].left, W)

\* A row with a three-character string in a column fixed at 2, and a
\* column asked to be -1 wide.
C3_Witness ==
    \E r \in DOMAIN rows :
        LET s == rows[r].schema IN
        /\ Len(made[s]) = 3
        /\ made[s][1].hasWidth /\ made[s][1].w = 2
        /\ made[s][3].hasWidth /\ made[s][3].w < 0
        /\ Len(rows[r].fmtArgs[1]) = 3
        /\ EachFmtStr(Heap, r)[1] = <<"%", "2", "s">>
        /\ EachFmtStr(Heap, r)[3] = <<"%", "-", "0", "s">>

\* The width column i of schema s has before a construction whose result is
\* heap h2: the stored one, or for a schema the construction itself made,
\* the width its column was created with.
BaseWidth(h2, s, i) ==
    IF s \in DOMAIN schemas THEN schemas[s].cols[i].width
    ELSE IF h2.schemas[s].cols[i].fixed THEN h2.schemas[s].cols[i].width ELSE 0

\* The law for the row a construction with values a against n columns adds
\* to the heap (h2 is the heap after it).
ResizeLaw(h2, a, n) ==
    LET new == h2.rows[Len(h2.rows)]
        k == Len(a)
    IN /\ Len(h2.rows) = Len(rows) + 1
       /\ h2.schemas[new.schema].count = n
       /\ Len(new.fields) = n
       /\ Len(new.fmtArgs) = n
       /\ \A i \in 1..n :
            IF i <= k
            THEN new.fields[i] = a[i] /\ new.fmtArgs[i] = MustToString(a[i])
            ELSE new.fields[i] = NilV /\ new.fmtArgs[i] = <<>>
       /\ \A s \in DOMAIN h2.schemas : \A i \in 1..h2.schemas[s].count :
            h2.schemas[s].cols[i].width =
                IF s = new.schema /\ i <= Min(k, n) /\ ~h2.schemas[s].cols[i].fixed
                THEN Max(BaseWidth(h2, s, i), Len(MustToString(a[i])))
                ELSE BaseWidth(h2, s, i)

\* The number of columns a row option stands for, given k values.
ColumnsOf(opt, k) ==
    IF opt.kind = "columns" THEN Len(opt.cols)
    ELSE IF opt.s # Nil THEN schemas[opt.s].count
    ELSE k

\* C4: a row constructed with k values against n columns (NewRow with any
\* schema option, Push on any node) has n fields and n value strings: the
\* first min(k, n) are the inputs and their conversions in order, the rest
\* nil and the empty string; a column's width changes only by the first
\* min(k, n) values, so the values past the n-th touch no width.
C4_ResizeLaw ==
    /\ \A opt \in SchemaOpts, a \in Data :
          ResizeLaw(NewRow(Heap, opt, a).h, a, ColumnsOf(opt, Len(a)))
    /\ \A n \in DOMAIN nodes, a \in Data :
          ResizeLaw(Push(Heap, n, a).h, a, ColumnsOf(WithSchema(nodes[n].schema), Len(a)))

\* A row cut to fewer values than were given, and a row padded with nil
\* after fewer values than its schema has columns.
C4_Witness ==
    /\ \E r \in DOMAIN rows :
          /\ Len(rows[r].fields) >= 1
          /\ Len(rows[r].fields) < MaxFields
          /\ rows[r].fields = SubSeq(RowB, 1, Len(rows[r].fields))
    /\ \E r \in DOMAIN rows :
          /\ Len(rows[r].fields) = MaxFields
          /\ rows[r].fields[1] = RowA[1]
          /\ rows[r].fields[MaxFields] = NilV
          /\ rows[r].fmtArgs[MaxFields] = <<>>

\* The schema-mismatch error of PushNode.
ErrMismatch == "PushNode: incoming node must have the same schema"

\* C5: PushNode of an incoming node that has a row succeeds exactly when the
\* receiver has no schema or its schema is the same object as the incoming
\* row's schema; with a different object it fails with the mismatch error,
\* whether or not the two schemas have equal columns.
C5_MergeReference ==
    \A n \in DOMAIN nodes, incoming \in DOMAIN nodes :
        nodes[incoming].row # Nil =>
            LET res == PushNode(Heap, n, incoming)
                irs == rows[nodes[incoming].row].schema
            IN /\ (res.err = NoErr) <=> (nodes[n].schema = Nil \/ nodes[n].schema = irs)
               /\ (nodes[n].schema # Nil /\ nodes[n].schema # irs) =>
                      res.err = ErrMismatch /\ res.out = Nil

\* A receiver and an incoming node whose schemas are two objects with equal
\* columns, the push between them failing.
C5_Witness ==
    \E n \in DOMAIN nodes, incoming \in DOMAIN nodes :
        /\ nodes[incoming].row # Nil
        /\ nodes[n].schema # Nil
        /\ nodes[n].schema # rows[nodes[incoming].row].schema
        /\ schemas[nodes[n].schema] = schemas[rows[nodes[incoming].row].schema]
        /\ schemas[nodes[n].schema].count >= 1
        /\ PushNode(Heap, n, incoming).err = ErrMismatch

\* C6: a PushNode that succeeds returns the incoming node, makes the
\* receiver its parent, appends it after the receiver's earlier children,
\* and the receiver's schema afterwards is the incoming row's schema if it
\* had none and its own otherwise.
C6_Accept ==
    \A n \in DOMAIN nodes, incoming \in DOMAIN nodes \cup {Nil} :
        LET res == PushNode(Heap, n, incoming) IN
        res.err = NoErr =>
            /\ res.out = incoming
            /\ res.h.nodes[incoming].parent = n
            /\ res.h.nodes[n].nodes = Append(nodes[n].nodes, incoming)
            /\ res.h.nodes[n].schema =
                   IF nodes[n].schema = Nil
                   THEN rows[nodes[incoming].row].schema
                   ELSE nodes[n].schema

\* A node with a schema and a child, and a node without a schema, each
\* able to take a further node that has a row.
C6_Witness ==
    \E n \in DOMAIN nodes, m \in DOMAIN nodes, incoming \in DOMAIN nodes :
        /\ Len(nodes[n].nodes) >= 1
        /\ nodes[n].schema # Nil
        /\ nodes[m].schema = Nil
        /\ incoming # n /\ nodes[incoming].parent = Nil
        /\ PushNode(Heap, n, incoming).err = NoErr
        /\ PushNode(Heap, m, incoming).err = NoErr

EmptyRowUnder(h, r, s) ==
    /\ h.rows[r].schema = s
    /\ h.rows[r].fields = [i \in 1..h.schemas[s].count |-> NilV]
    /\ h.rows[r].fmtArgs = [i \in 1..h.schemas[s].count |-> <<>>]

PushLaw(n, a) ==
    LET res == Push(Heap, n, a)
        root == res.h.nodes[1].schema
    IN /\ res.err = NoErr
       /\ res.out = Len(nodes) + 1
       /\ res.h.nodes[res.out].parent = n
       /\ res.h.nodes[res.out].schema = res.h.nodes[n].schema
       /\ res.h.nodes[res.out].schema = root
       /\ res.h.rows[res.h.nodes[res.out].row].schema = root
       /\ nodes[1].schema # Nil => root = nodes[1].schema
       /\ nodes[1].schema = Nil => res.h.schemas[root].count = Len(a)
       /\ \A i \in 1..res.h.schemas[root].count :
            res.h.schemas[root].cols[i].width =
                Max(IF nodes[1].schema = Nil THEN 0
                    ELSE schemas[nodes[1].schema].cols[i].width,
                    Len(MustToString(Arg(a, i))))

C11_ChildRows ==
    \A n \in DOMAIN nodes : \A i \in 1..Len(nodes[n].nodes) :
        LET c == nodes[n].nodes[i] IN
        /\ nodes[c].row # Nil
        /\ nodes[n].schema # Nil
        /\ rows[nodes[c].row].schema = nodes[n].schema
        /\ Len(rows[nodes[c].row].fields) = schemas[nodes[n].schema].count
        /\ Len(rows[nodes[c].row].fmtArgs) = schemas[nodes[n].schema].count

\* A node with two children of one schema, one row cut to the schema's
\* single column and one given as it is, which Sort has looked at.
C11_Witness ==
    \E n \in DOMAIN nodes :
        /\ Len(nodes[n].nodes) = 2
        /\ nodes[n].nodes[1] # nodes[n].nodes[2]
        /\ nodes[n].schema # Nil
        /\ schemas[nodes[n].schema].count = 1
        /\ \E i \in 1..2 :
              rows[nodes[nodes[n].nodes[i]].row].fields = <<StrV(<<"a", "b", "c">>)>>
        /\ Sort(Heap, n, 0, SortOpts(FALSE, <<>>)).err = ErrTypes

\* The raw value of node c's row in column col (counted from 0).
KeyOf(c, col) == rows[nodes[c].row].fields[col + 1]

\* col is a column of node n's schema.
ValidCol(n, col) ==
    /\ nodes[n].schema # Nil
    /\ col >= 0
    /\ col < schemas[nodes[n].schema].count

\* The values of n's children in column col all have one type.
OneType(n, col) ==
    \A i \in 1..Len(nodes[n].nodes), j \in 1..Len(nodes[n].nodes) :
        KeyOf(nodes[n].nodes[i], col).type = KeyOf(nodes[n].nodes[j], col).type

\* The place of x in a sequence without repetitions.
Pos(seq, x) == CHOOSE i \in 1..Len(seq) : seq[i] = x

\* t holds the elements of s, each as often as s does.
Permutation(s, t) ==
    /\ Len(s) = Len(t)
    /\ \A x \in {s[i] : i \in 1..Len(s)} \cup {t[i] : i \in 1..Len(t)} :
          Cardinality({i \in 1..Len(s) : s[i] = x})
              = Cardinality({i \in 1..Len(t) : t[i] = x})

\* C12: Sort fails with the no-such-field error, calls no matcher and
\* changes nothing when the node has no schema or the column is below 0 or
\* not below the schema's count, however many children the node has.
C12_NoSuchColumn ==
    \A n \in DOMAIN nodes, col \in SortColumns, opts \in SortOptions :
        ~ValidCol(n, col) =>
            LET res == Sort(Heap, n, col, opts) IN
            /\ res.err = ErrNoField
            /\ res.calls = 0
            /\ res.h = Heap

\* A node with two children and a node with none, both with a schema, asked
\* for the column just past the last one and for column -1.
C12_Witness ==
    \E n \in DOMAIN nodes, m \in DOMAIN nodes :
        /\ Len(nodes[n].nodes) >= 2
        /\ Len(nodes[m].nodes) = 0
        /\ nodes[n].schema # Nil /\ nodes[m].schema # Nil
        /\ Sort(Heap, n, schemas[nodes[n].schema].count, SortOpts(FALSE, <<>>)).err = ErrNoField
        /\ Sort(Heap, m, schemas[nodes[m].schema].count, SortOpts(FALSE, <<>>)).err = ErrNoField
        /\ Sort(Heap, m, 0 - 1, SortOpts(TRUE, <<>>)).err = ErrNoField

\* C13: Sort on a valid column of a node with at least two children fails
\* with the type error and changes nothing whenever the children's values
\* in that column are not all of one type, a padded nil field next to a real
\* value included, whatever the options.
C13_MixedTypes ==
    \A n \in DOMAIN nodes, col \in SortColumns, opts \in SortOptions :
        (ValidCol(n, col) /\ Len(nodes[n].nodes) >= 2 /\ ~OneType(n, col)) =>
            LET res == Sort(Heap, n, col, opts) IN
            /\ res.err = ErrTypes
            /\ res.h = Heap

\* Three children whose first two values are ints and third a string, the
\* third row padded with nil in the next column where the others hold
\* strings.
C13_Witness ==
    \E n \in DOMAIN nodes :
        /\ Len(nodes[n].nodes) = 3
        /\ ValidCol(n, 1)
        /\ KeyOf(nodes[n].nodes[1], 0).type = "int"
        /\ KeyOf(nodes[n].nodes[2], 0).type = "int"
        /\ KeyOf(nodes[n].nodes[3], 0).type = "string"
        /\ KeyOf(nodes[n].nodes[1], 1).type = "string"
        /\ KeyOf(nodes[n].nodes[3], 1) = NilV
        /\ Sort(Heap, n, 0, SortOpts(FALSE, <<>>)).err = ErrTypes
        /\ Sort(Heap, n, 1, SortOpts(FALSE, <<>>)).err = ErrTypes

\* What an ascending Sort of n on col with matchers chain leaves, when it
\* succeeds on two or more children: the same children, none before one
\* that the comparator puts before it, equal ones in their earlier order.
AscendingLaw(n, col, chain) ==
    LET res == Sort(Heap, n, col, SortOpts(FALSE, chain))
        old == nodes[n].nodes
        new == res.h.nodes[n].nodes
    IN (res.err = NoErr /\ Len(old) >= 2) =>
        /\ Permutation(old, new)
        /\ \A i \in 1..Len(new), j \in 1..Len(new) :
              i < j => ~Cmp(res.cmp, KeyOf(new[j], col), KeyOf(new[i], col))
        /\ res.cmp = "ltInt" =>
              \A i \in 1..(Len(new) - 1) :
                  KeyOf(new[i], col).i <= KeyOf(new[i + 1], col).i
        /\ \A x \in DOMAIN old, y \in DOMAIN old :
              (/\ x < y
               /\ ~Cmp(res.cmp, KeyOf(old[x], col), KeyOf(old[y], col))
               /\ ~Cmp(res.cmp, KeyOf(old[y], col), KeyOf(old[x], col)))
                  => Pos(new, old[x]) < Pos(new, old[y])

\* C14: a successful ascending Sort leaves the node's children a
\* permutation of what they were, non-decreasing in the sorted column under
\* the comparator used (for ints: by value), children of equal key in the
\* relative order they had before.
C14_AscendingStable ==
    \A n \in DOMAIN nodes, col \in SortColumns, chain \in Chains :
        ValidCol(n, col) => AscendingLaw(n, col, chain)

\* Children (3,a), (5,a), (5,b) in that order, the (5,a) child pushed after
\* the (5,b) child: the order of the two 5s is the one a sort on the second
\* column made, and a sort on the first column keeps it.
C14_Witness ==
    \E n \in DOMAIN nodes :
        /\ Len(nodes[n].nodes) = 3
        /\ ValidCol(n, 1)
        /\ KeyOf(nodes[n].nodes[1], 0) = IntV(3)
        /\ KeyOf(nodes[n].nodes[2], 0) = IntV(5)
        /\ KeyOf(nodes[n].nodes[3], 0) = IntV(5)
        /\ KeyOf(nodes[n].nodes[2], 1) = StrV(<<"a">>)
        /\ KeyOf(nodes[n].nodes[3], 1) = StrV(<<"b">>)
        /\ nodes[n].nodes[2] > nodes[n].nodes[3]
        /\ Sort(Heap, n, 0, SortOpts(FALSE, <<>>)).err = NoErr
        /\ Sort(Heap, n, 0, SortOpts(FALSE, <<>>)).h = Heap

\* C15: a successful Sort with WithDescending leaves the children
\* non-increasing in the sorted column, and children of equal key keep the
\* relative order they had before the call.
C15_DescendingStable ==
    \A n \in DOMAIN nodes, col \in SortColumns, chain \in Chains :
        ValidCol(n, col) =>
            LET res == Sort(Heap, n, col, SortOpts(TRUE, chain))
                old == nodes[n].nodes
                new == res.h.nodes[n].nodes
            IN (res.err = NoErr /\ Len(old) >= 2) =>
                /\ Permutation(old, new)
                /\ \A i \in 1..Len(new), j \in 1..Len(new) :
                      i < j => ~Cmp(res.cmp, KeyOf(new[i], col), KeyOf(new[j], col))
                /\ \A x \in DOMAIN old, y \in DOMAIN old :
                      (/\ x < y
                       /\ ~Cmp(res.cmp, KeyOf(old[x], col), KeyOf(old[y], col))
                       /\ ~Cmp(res.cmp, KeyOf(old[y], col), KeyOf(old[x], col)))
                          => Pos(new, old[x]) < Pos(new, old[y])

\* The chain Sort consults, and the matchers of it that have a comparator
\* for value a.
Consulted(chain) == chain \o <<"MatchCmp">>
Hits(chain, a) ==
    { k \in 1..Len(Consulted(chain)) : Matcher(Consulted(chain)[k], a) # NoCmp }

\* C16: on a valid column of one type and two or more children, Sort asks
\* the caller's matchers in the order given and then the built-in one, and
\* stops at the first that returns a comparator: that comparator orders the
\* children (so a caller's matcher for ints is used instead of the built-in
\* one), and Sort fails with the no-comparator error, changing nothing,
\* exactly when no matcher of the chain, the built-in one included, returns
\* one.
C16_FirstMatcher ==
    \A n \in DOMAIN nodes, col \in SortColumns, opts \in SortOptions :
        (ValidCol(n, col) /\ Len(nodes[n].nodes) >= 2 /\ OneType(n, col)) =>
            LET res == Sort(Heap, n, col, opts)
                a == KeyOf(nodes[n].nodes[1], col)
                hits == Hits(opts.chain, a)
                first == CHOOSE k \in hits : \A l \in hits : k <= l
                new == res.h.nodes[n].nodes
            IN IF hits = {}
               THEN res.err = ErrNoCmp /\ res.h = Heap
               ELSE /\ res.err = NoErr
                    /\ res.calls = first
                    /\ res.cmp = Matcher(Consulted(opts.chain)[first], a)
                    /\ \A i \in 1..(Len(new) - 1) :
                          IF opts.desc
                          THEN ~Cmp(res.cmp, KeyOf(new[i], col), KeyOf(new[i + 1], col))
                          ELSE ~Cmp(res.cmp, KeyOf(new[i + 1], col), KeyOf(new[i], col))

\* Children 3 and 5 that a caller's matcher for ints sorts downwards, the
\* built-in matcher given before it upwards; below them two children whose
\* second field is nil, which only a caller's matcher for nil can sort and
\* whose first field, a string, falls through the caller's matcher for ints
\* to the built-in one.
C16_Witness ==
    \E n \in DOMAIN nodes, m \in DOMAIN nodes :
        /\ Len(nodes[n].nodes) = 2
        /\ ValidCol(n, 1) /\ ValidCol(m, 1)
        /\ KeyOf(nodes[n].nodes[1], 0) = IntV(3)
        /\ KeyOf(nodes[n].nodes[2], 0) = IntV(5)
        /\ Sort(Heap, n, 0, SortOpts(FALSE, <<"intDown">>)).h.nodes[n].nodes
              = <<nodes[n].nodes[2], nodes[n].nodes[1]>>
        /\ Sort(Heap, n, 0, SortOpts(FALSE, <<"MatchCmp", "intDown">>)).h = Heap
        /\ Len(nodes[m].nodes) = 2
        /\ KeyOf(nodes[m].nodes[1], 1) = NilV
        /\ KeyOf(nodes[m].nodes[2], 1) = NilV
        /\ Sort(Heap, m, 1, SortOpts(FALSE, <<"intDown">>)).err = ErrNoCmp
        /\ Sort(Heap, m, 1, SortOpts(FALSE, <<"nils">>)).err = NoErr
        /\ Sort(Heap, m, 0, SortOpts(FALSE, <<"intDown">>)).cmp = "ltString"

\* C17: Sort on a valid column of a node with fewer than two children
\* returns no error, changes nothing, and calls no matcher and takes no
\* comparator, whatever the child's value in the column is.
C17_FewChildren ==
    \A n \in DOMAIN nodes, col \in SortColumns, opts \in SortOptions :
        (ValidCol(n, col) /\ Len(nodes[n].nodes) < 2) =>
            LET res == Sort(Heap, n, col, opts) IN
            /\ res.err = NoErr
            /\ res.h = Heap
            /\ res.calls = 0
            /\ res.cmp = NoCmp

\* A node whose only child has nil in the second column, a value no matcher
\* given has a comparator for, and a node with a schema and no child.
C17_Witness ==
    \E n \in DOMAIN nodes, m \in DOMAIN nodes :
        /\ Len(nodes[n].nodes) = 1
        /\ ValidCol(n, 1)
        /\ KeyOf(nodes[n].nodes[1], 1) = NilV
        /\ Hits(<<"intDown">>, NilV) = {}
        /\ Sort(Heap, n, 1, SortOpts(FALSE, <<"intDown">>)).err = NoErr
        /\ Len(nodes[m].nodes) = 0
        /\ ValidCol(m, 0)

\* C18: a Sort, failed or not, leaves every schema, every row and every
\* node other than the receiver as they were, and of the receiver changes
\* only the order of its children: the same children, its parent, row and
\* schema untouched; so the children's parents and every descendant's
\* children order are unchanged.
C18_SortFrame ==
    \A n \in DOMAIN nodes, col \in SortColumns, opts \in SortOptions :
        LET res == Sort(Heap, n, col, opts) IN
        /\ res.h.schemas = schemas
        /\ res.h.rows = rows
        /\ DOMAIN res.h.nodes = DOMAIN nodes
        /\ \A m \in DOMAIN nodes : m # n => res.h.nodes[m] = nodes[m]
        /\ res.h.nodes[n].parent = nodes[n].parent
        /\ res.h.nodes[n].row = nodes[n].row
        /\ res.h.nodes[n].schema = nodes[n].schema
        /\ Permutation(nodes[n].nodes, res.h.nodes[n].nodes)

\* Two children out of order, the first with two children of its own that
\* are out of order too; sorting the upper pair changes the heap.
C18_Witness ==
    \E n \in DOMAIN nodes :
        /\ Len(nodes[n].nodes) = 2
        /\ ValidCol(n, 0)
        /\ KeyOf(nodes[n].nodes[1], 0) = IntV(5)
        /\ KeyOf(nodes[n].nodes[2], 0) = IntV(3)
        /\ LET c == nodes[n].nodes[1] IN
           /\ Len(nodes[c].nodes) = 2
           /\ KeyOf(nodes[c].nodes[1], 0) = IntV(5)
           /\ KeyOf(nodes[c].nodes[2], 0) = IntV(3)
        /\ Sort(Heap, n, 0, SortOpts(FALSE, <<>>)).err = NoErr
        /\ Sort(Heap, n, 0, SortOpts(FALSE, <<>>)).h # Heap

\* The value string v padded, never cut, to width w: spaces after it when
\* the column is left-aligned, before it otherwise.
Padded(v, w, left) ==
    IF Len(v) >= w THEN v
    ELSE IF left THEN v \o Spaces(w - Len(v))
    ELSE Spaces(w - Len(v)) \o v

\* The texts ts from the i-th on, a copy of sep between neighbours.
RECURSIVE Joined(_, _, _)
Joined(ts, sep, i) ==
    IF i > Len(ts) THEN <<>>
    ELSE IF i = Len(ts) THEN ts[i]
    ELSE ts[i] \o sep \o Joined(ts, sep, i + 1)

\* The line of row r: its value strings padded to the current widths of
\* its columns, joined by sep and followed by lf; nothing without columns.
LineOf(r, sep, lf) ==
    LET cols == schemas[rows[r].schema].cols
        n == schemas[rows[r].schema].count
    IN IF n = 0 THEN <<>>
       ELSE Joined([i \in 1..n |->
                       Padded(rows[r].fmtArgs[i], cols[i].width, cols[i].right)],
                   sep, 1) \o lf

\* C19: RunRow on a row with n >= 1 columns writes the n value strings,
\* each padded (never truncated) to its column's current width on the side
\* given by the alignment flag, joined by exactly n-1 copies of the
\* separator and followed by the line terminator when it is non-empty; on
\* a row with zero columns it writes nothing at all.
C19_RunRowLine ==
    \A r \in DOMAIN rows, p \in Printings :
        RunRow(Heap, p, r) = LineOf(r, p.sep, p.lf)

\* The k-th node above m, following the parent references; Nil past a root.
RECURSIVE Ancestor(_, _)
Ancestor(m, k) ==
    IF k = 0 THEN m
    ELSE LET up == Ancestor(m, k - 1)
         IN IF up = Nil THEN Nil ELSE nodes[up].parent

\* The nodes strictly below n.
Descendants(n) ==
    { m \in DOMAIN nodes : \E k \in 1..Len(nodes) : Ancestor(m, k) = n }

\* What RunRow writes for the rows of the nodes ms, from the i-th on.
RECURSIVE TextOf(_, _, _)
TextOf(ms, p, i) ==
    IF i > Len(ms) THEN <<>>
    ELSE RunRow(Heap, p, nodes[ms[i]].row) \o TextOf(ms, p, i + 1)

\* C20: RunNode on an acyclic tree renders the node's own row first only
\* if the node has a parent, then every descendant's row exactly once in
\* depth-first pre-order of the current children sequences: the nodes
\* visited are the descendants, each once; right after a node come exactly
\* its own descendants, before its following siblings; and the children of
\* one node are visited in the order of its children sequence.
C20_PreOrder ==
    \A n \in DOMAIN nodes :
        LET seq == Walk(Heap, n)
            own == IF nodes[n].parent # Nil THEN <<n>> ELSE <<>>
        IN /\ Len(seq) = Cardinality(Descendants(n))
           /\ {seq[i] : i \in 1..Len(seq)} = Descendants(n)
           /\ \A i \in 1..Len(seq) :
                 LET k == Cardinality(Descendants(seq[i])) IN
                 /\ i + k <= Len(seq)
                 /\ {seq[j] : j \in (i + 1)..(i + k)} = Descendants(seq[i])
           /\ \A m \in {n} \cup Descendants(n) :
                 \A a \in 1..Len(nodes[m].nodes), b \in 1..Len(nodes[m].nodes) :
                     a < b => Pos(seq, nodes[m].nodes[a]) < Pos(seq, nodes[m].nodes[b])
           /\ \A p \in Printings : RunNode(Heap, p, n) = TextOf(own \o seq, p, 1)

\* A and B pushed under a root and then D and E under A: the walk of the
\* root visits A, D, E, B, the rows 3 a / 5 a / x / 5 b are printed in that
\* order, and RunNode on A prints A's own row first.
C20_Witness ==
    \E n \in DOMAIN nodes :
        /\ nodes[n].parent = Nil
        /\ Len(nodes[n].nodes) = 2
        /\ LET a == nodes[n].nodes[1]
               b == nodes[n].nodes[2]
               p == NewPrinting(<<" ">>, <<"\n">>)
           IN /\ Len(nodes[a].nodes) = 2
              /\ a < b
              /\ b < nodes[a].nodes[1]
              /\ nodes[a].nodes[1] < nodes[a].nodes[2]
              /\ Walk(Heap, n) = <<a, nodes[a].nodes[1], nodes[a].nodes[2], b>>
              /\ RunNode(Heap, p, n) =
                    <<"3", " ", "a", "\n", "5", " ", "a", "\n",
                      "x", " ", " ", "\n", "5", " ", "b", "\n">>
              /\ RunNode(Heap, p, a) =
                    <<"3", " ", "a", "\n", "5", " ", "a", "\n", "x", " ", " ", "\n">>

\* NewPrinting() without options: a space between columns, a newline after
\* each row.
DefaultPrinting == NewPrinting(<<" ">>, <<"\n">>)

\* Node n is a root whose schema has two auto-width columns and whose
\* children are two leaves made by pushing (1, "ab") and then (22, "c"),
\* the only rows there are.
TwoRowsPushed(n) ==
    /\ nodes[n].parent = Nil
    /\ Len(nodes[n].nodes) = 2
    /\ Len(rows) = 2
    /\ rows[nodes[nodes[n].nodes[1]].row].fields = <<IntV(1), StrV(<<"a", "b">>)>>
    /\ rows[nodes[nodes[n].nodes[2]].row].fields = <<IntV(22), StrV(<<"c">>)>>
    /\ nodes[n].schema # Nil
    /\ made[nodes[n].schema] = <<Auto, Auto>>

\* C21, as the specification has it: after pushing (1, "ab") and then
\* (22, "c") under a root with two auto-width columns, rendering the root
\* with the default separator and terminator yields "1  ab\n22 c\n".
C21_PaddedRight ==
    \A n \in DOMAIN nodes :
        TwoRowsPushed(n) =>
            RunNode(Heap, DefaultPrinting, n) =
                <<"1", " ", " ", "a", "b", "\n", "2", "2", " ", "c", "\n">>

\* C21: after pushing (1, "ab") and then (22, "c") under a root with two
\* auto-width columns, both columns have width 2 and rendering the root
\* with the default separator and terminator yields " 1 ab\n22  c\n": the
\* columns NewSchemaFrom makes pad on the left.
C21_RoundTrip ==
    \A n \in DOMAIN nodes :
        TwoRowsPushed(n) =>
            /\ schemas[nodes[n].schema].cols[1].width = 2
            /\ schemas[nodes[n].schema].cols[2].width = 2
            /\ RunNode(Heap, DefaultPrinting, n) =
                  <<" ", "1", " ", "a", "b", "\n", "2", "2", " ", " ", "c", "\n">>

\* The root after the two pushes, rendered.
C21_Witness ==
    \E n \in DOMAIN nodes :
        /\ TwoRowsPushed(n)
        /\ RunNode(Heap, DefaultPrinting, n) # <<>>

\* The nodes reached from the nodes S by at most k steps along children
\* sequences.
RECURSIVE BelowK(_, _)
BelowK(S, k) ==
    IF k = 0 THEN S
    ELSE BelowK(S \cup UNION { {nodes[m].nodes[i] : i \in 1..Len(nodes[m].nodes)} : m \in S },
                k - 1)

\* The nodes reached from n by one or more steps along children sequences.
Below(n) == BelowK({nodes[n].nodes[i] : i \in 1..Len(nodes[n].nodes)}, Len(nodes))

\* No node at or below n is below itself.
Acyclic(n) == \A m \in {n} \cup Below(n) : m \notin Below(m)

ClosesCycle(n, incoming) == n = incoming \/ n \in Below(incoming)

\* Pushing incoming onto n in Heap meets PushNode's rule on schemas.
SchemaRuleMet(n, incoming) ==
    /\ nodes[incoming].row # Nil
    /\ \/ nodes[n].schema = Nil
       \/ nodes[n].schema = rows[nodes[incoming].row].schema

\* PushNode detects no cycle: a push onto the node itself or onto one of
\* its descendants that meets the schema rule is accepted.
CycleAccepted ==
    \A n \in DOMAIN nodes, incoming \in DOMAIN nodes :
        (ClosesCycle(n, incoming) /\ SchemaRuleMet(n, incoming)) =>
            LET res == PushNode(Heap, n, incoming) IN
            /\ res.err = NoErr
            /\ res.h.nodes[n].nodes = Append(nodes[n].nodes, incoming)
            /\ res.h.nodes[incoming].parent = n

\* A call of Walk that has returned was on a structure without a cycle and
\* has visited each descendant.
ReturnedLaw ==
    Returned =>
        /\ Acyclic(walk.root)
        /\ {walk.seen[i] : i \in 1..Len(walk.seen)} = Below(walk.root)

\* C23: PushNode performs no cycle detection: pushing a node that carries
\* a row onto itself or onto one of its own descendants is accepted
\* whenever the schema rule is met, and Walk on the resulting structure
\* never returns (it recurses without end); conversely, on a structure
\* without a cycle Walk returns after visiting each descendant.
C23_NoCycleDetection ==
    /\ [](CycleAccepted /\ ReturnedLaw)
    /\ ((walk.on /\ Acyclic(walk.root)) ~> Returned)
    /\ ((walk.on /\ ~Acyclic(walk.root)) ~> Diverged)

\* A node pushed onto itself, and a call of Walk on it that is deeper than
\* there are nodes.
C23_Witness ==
    /\ Diverged
    /\ nodes[walk.root].parent = walk.root
    /\ \E i \in 1..Len(nodes[walk.root].nodes) : nodes[walk.root].nodes[i] = walk.root

\* Every thread has returned from Push.
AllDone == threads # <<>> /\ \A t \in DOMAIN threads : threads[t].pc = "done"

\* The row of thread t is the row of a child of the thread's node.
RowAttached(t) ==
    \E c \in DOMAIN nodes :
        /\ nodes[c].row = threads[t].row
        /\ nodes[c].parent = threads[t].node
        /\ \E k \in 1..Len(nodes[threads[t].node].nodes) :
              nodes[threads[t].node].nodes[k] = c

\* An auto-width column of schema s is narrower than a string a row of the
\* schema has in it.
LostUpdate(s) ==
    \E i \in 1..schemas[s].count :
        /\ ~schemas[s].cols[i].fixed
        /\ schemas[s].cols[i].width < Longest(s, i)

\* C24: two Push operations on nodes sharing one schema, run as interleaved
\* threads with the width read, the comparison and the width write as
\* separate steps, can lose an update (the state of C24_Witness is
\* reached).  What the interleaving leaves: once both have returned, both
\* rows are attached, and each column is as wide as the longest string in
\* it unless both new strings are longer than the width before the pushes,
\* in which case it may be only as wide as the shorter of the two.
C24_LostUpdate ==
    AllDone =>
        /\ \A t \in DOMAIN threads : RowAttached(t)
        /\ \A i \in 1..schemas[1].count :
              LET w0 == Len(MustToString(RaceFirstRow[i]))
                  l1 == Len(rows[threads[1].row].fmtArgs[i])
                  l2 == Len(rows[threads[2].row].fmtArgs[i])
                  w == schemas[1].cols[i].width
              IN \/ w = Longest(1, i)
                 \/ l1 > w0 /\ l2 > w0 /\ w = Min(l1, l2)

\* Both threads have returned, both rows are attached, and the first
\* column is narrower than the longest string in it.
C24_Witness ==
    /\ AllDone
    /\ \A t \in DOMAIN threads : RowAttached(t)
    /\ nodes[1].schema = nodes[2].schema
    /\ LostUpdate(nodes[1].schema)
    /\ schemas[1].cols[1].width = 2
    /\ Longest(1, 1) = 3

\* The call res of PushNode(n, incoming) on Heap, if it failed, left the
\* receiver's children and schema and the incoming node's parent, schema
\* and row as they were.
ErrorFrame(res, n, incoming) ==
    res.err # NoErr =>
        /\ res.out = Nil
        /\ res.h.nodes[n].nodes = nodes[n].nodes
        /\ res.h.nodes[n].schema = nodes[n].schema
        /\ incoming # Nil =>
              /\ res.h.nodes[incoming].parent = nodes[incoming].parent
              /\ res.h.nodes[incoming].schema = nodes[incoming].schema
              /\ res.h.nodes[incoming].row = nodes[incoming].row

\* C25: whenever PushNode returns an error, the receiver's children
\* sequence and schema and the incoming node's parent, schema and row are
\* exactly as they were before the call.
C25_ErrorFrame ==
    \A n \in DOMAIN nodes, incoming \in DOMAIN nodes \cup {Nil} :
        ErrorFrame(PushNode(Heap, n, incoming), n, incoming)

\* The same of the later revision's PushNode, on its heaps.
ErrorFrameLazy ==
    \A n \in DOMAIN nodes, incoming \in DOMAIN nodes \cup {Nil} :
        ErrorFrame(PushNodeLazy(Heap, n, incoming), n, incoming)

\* A push that fails on the schemas, of a node that has a parent, and a
\* push that fails for want of a row.
C25_Witness ==
    \E n \in DOMAIN nodes, incoming \in DOMAIN nodes, e \in DOMAIN nodes :
        /\ PushNode(Heap, n, incoming).err = ErrMismatch
        /\ nodes[incoming].parent # Nil
        /\ nodes[incoming].parent # n
        /\ nodes[e].row = Nil
        /\ PushNode(Heap, n, e).err # NoErr

Reverse(s) == [i \in 1..Len(s) |-> s[Len(s) + 1 - i]]

C27_PushSucceeds ==
    \A n \in DOMAIN nodes, a \in Data :
        LET res == Push(Heap, n, a) IN
        /\ res.err = NoErr
        /\ res.out = Len(nodes) + 1
        /\ Len(res.h.nodes) = Len(nodes) + 1
        /\ res.h.nodes[n].nodes = Append(nodes[n].nodes, res.out)
        /\ res.h.nodes[res.out].parent = n
        /\ \A m \in DOMAIN nodes : m # n => res.h.nodes[m] = nodes[m]

\* A node that has a parent, a schema and a child, another node with
\* another schema, and a node without a schema.
C27_Witness ==
    \E n \in DOMAIN nodes, m \in DOMAIN nodes, e \in DOMAIN nodes :
        /\ nodes[n].parent # Nil
        /\ nodes[n].schema # Nil
        /\ Len(nodes[n].nodes) > 0
        /\ nodes[m].schema # Nil
        /\ nodes[m].schema # nodes[n].schema
        /\ nodes[e].schema = Nil
        /\ \A a \in Data : Push(Heap, n, a).err = NoErr

\* The places (node, index) of the children sequences at which c stands.
PlacesOf(c) ==
    { <<n, i>> \in (DOMAIN nodes) \X (1..MaxObjects) :
          i <= Len(nodes[n].nodes) /\ nodes[n].nodes[i] = c }

\* C28: parent and children links stay consistent after any sequence of
\* Push, PushRow, PushNode and Sort calls: a node c is in the children
\* sequence of n only if c.parent is n, and no node occurs more than once
\* across all children sequences.
C28_LinksConsistent ==
    /\ \A n \in DOMAIN nodes : \A i \in 1..Len(nodes[n].nodes) :
          nodes[nodes[n].nodes[i]].parent = n
    /\ \A c \in DOMAIN nodes : Cardinality(PlacesOf(c)) <= 1

\* C29: Sort is idempotent: for any node, column and option set for which
\* Sort succeeds, a second Sort with the same column and options succeeds
\* and leaves the children in the order the first call produced, both for
\* ascending and for descending order.
C29_SortIdempotent ==
    \A n \in DOMAIN nodes, col \in SortColumns, opts \in SortOptions :
        LET once == Sort(Heap, n, col, opts) IN
        once.err = NoErr =>
            LET twice == Sort(once.h, n, col, opts) IN
            /\ twice.err = NoErr
            /\ twice.h.nodes[n].nodes = once.h.nodes[n].nodes

\* The same for ascending order alone.
AscendingIdempotent ==
    \A n \in DOMAIN nodes, col \in SortColumns, chain \in Chains :
        LET once == Sort(Heap, n, col, SortOpts(FALSE, chain)) IN
        once.err = NoErr =>
            LET twice == Sort(once.h, n, col, SortOpts(FALSE, chain)) IN
            /\ twice.err = NoErr
            /\ twice.h = once.h

\* Every column of schema s is auto-width.
AllAuto(s) == \A i \in 1..schemas[s].count : ~schemas[s].cols[i].fixed

\* The lines RunRow writes with printing p for the rows of schema s, when
\* all its columns are auto-width, are as long as one another, the empty
\* ones aside, and no value string is longer than its column is wide.
AlignedUnder(p) ==
    \A s \in DOMAIN schemas :
        AllAuto(s) =>
            /\ \A r \in RowsOf(s) : \A i \in 1..schemas[s].count :
                  Len(rows[r].fmtArgs[i]) <= schemas[s].cols[i].width
            /\ \A r1 \in RowsOf(s), r2 \in RowsOf(s) :
                  (RunRow(Heap, p, r1) # <<>> /\ RunRow(Heap, p, r2) # <<>>)
                      => Len(RunRow(Heap, p, r1)) = Len(RunRow(Heap, p, r2))

\* C30: alignment: at any time, all non-empty lines that RunRow produces
\* for rows sharing one schema whose columns are all auto-width have the
\* same length, because every such row's value string in column i is no
\* longer than the column's current width.
C30_Alignment == \A p \in Printings : AlignedUnder(p)

\* The same with the separators that hold no percent sign.
AlignedLiteralSeps == \A p \in Printings : p.sep # <<"%">> => AlignedUnder(p)

====
